---- MODULE Spec2Model ----
(***************************************************************************)
(* Model of the WebSocket fan-out engine of Gas-monitoring-backend28       *)
(* (server.js): the client registry `clients`, the per-device subscription *)
(* index, the frame handler, the close handler, the two broadcasters and   *)
(* the heartbeat sweep.  One action per handler; Node runs each handler to *)
(* completion, so a handler is one atomic step.                            *)
(***************************************************************************)
EXTENDS Integers, Sequences, FiniteSets, TLC

\* ---------------------------------------------------------------- bounds
MaxConns == 3          \* connections ever accepted
MaxFrames == 2         \* inbound frames plus simulated broadcasts handled
MaxTicks == 1          \* how many jumps the clock makes
MaxSteps == 4          \* handler runs and clock jumps in one behaviour

\* ------------------------------------------------------ program constants
Deadline == 120000     \* idle limit of the sweep, in ms

\* ------------------------------------------------------------ value sets
Conns == 1..MaxConns
Undefined == "undefined"           \* an absent property
NoValue == -1                      \* an absent numeric / time property
DeviceIds == {"esp32", "device1"}  \* ordinary device identifiers
ProtoKeys == {"constructor"}       \* keys every plain object inherits
DeviceKeys == DeviceIds \cup ProtoKeys
ReadyStates == {"NONE", "OPEN", "CLOSING", "CLOSED"}

\* What JSON.parse makes of an inbound text frame: a syntax error, the
\* value null, or an object with (possibly absent) properties.
Frame(type, deviceId, device, timestamp, temperature) ==
  [parse |-> "object", type |-> type, deviceId |-> deviceId,
   device |-> device, timestamp |-> timestamp, temperature |-> temperature]

TelemetryFrames ==
  {Frame("telemetry", d, Undefined, 7, 70) : d \in {Undefined} \cup DeviceKeys}
  \cup {Frame("telemetry", Undefined, "esp32", 7, 70),
        Frame("telemetry", "device1", "esp32", 7, 70),
        Frame("telemetry", "esp32", Undefined, NoValue, 71)}

AlarmFrames ==
  {Frame("alarm", Undefined, "esp32", 7, NoValue),
   Frame("alarm", Undefined, Undefined, NoValue, NoValue)}

SubscribeFrames ==
  {Frame("subscribe", d, Undefined, NoValue, NoValue) :
     d \in {Undefined} \cup DeviceKeys}

OtherFrames ==
  {Frame("ping", Undefined, Undefined, NoValue, NoValue),
   Frame("status", Undefined, Undefined, NoValue, NoValue)}

ObjectFrames ==
  TelemetryFrames \cup AlarmFrames \cup SubscribeFrames \cup OtherFrames

NoFrame ==
  [parse |-> "none", type |-> Undefined, deviceId |-> Undefined,
   device |-> Undefined, timestamp |-> NoValue, temperature |-> NoValue]

Frames ==
  ObjectFrames \cup
  {[NoFrame EXCEPT !.parse = "error"], [NoFrame EXCEPT !.parse = "null"]}

\* The payloads startDataSimulation hands to broadcastTelemetry.
SimulatedData == {Frame("telemetry", "esp32", Undefined, 7, 70)}

VARIABLES
  producers,            \* clients.producers
  consumers,            \* clients.consumers
  deviceSubscriptions,  \* clients.deviceSubscriptions: own keys -> set
  readyState,           \* ws.readyState of every connection
  lastActivity,         \* ws.lastActivity
  clientType,           \* the clientType captured by the connection handler
  now,                  \* Date.now()
  running,              \* the server process is alive
  hasGlobalWebSocket,   \* the runtime defines a global WebSocket
  nconn,                \* connections accepted so far
  nframes,              \* frames and simulated broadcasts handled so far
  nticks,               \* clock jumps so far
  steps,                \* handler runs and clock jumps so far
  bseq,                 \* broadcaster invocations so far
  sent,                 \* what the last handler wrote, per connection
  received,             \* everything written to each connection, in order
  last,                 \* the last handler that ran, its input and outcome
  inbox,                \* frames a connection has sent that await their 'message' event
  arrivals,             \* frames that have arrived so far
  order,                \* per recipient: sender and arrival number behind each message
  wsConnection,         \* telemetry service: the current socket, 0 for null
  socketState,          \* telemetry service: readyState of every socket it created
  socketDevice,         \* telemetry service: the deviceId each socket's handlers closed over
  serverSubscribed,     \* the devices the server has each socket subscribed to
  pingInterval,         \* telemetry service: the ping timer handle is set
  reconnectInterval,    \* telemetry service: <<>> for null, else <<deviceId>> of the timer
  pingTimers,           \* ping timers that are active
  reconnectTimers,      \* reconnect timers that are active
  wsSubscribers,        \* wsSubscribers.telemetry: device -> set of callbacks
  telemetryCache,       \* devices with a cached latest / realtime entry
  timeouts,             \* setTimeout callbacks that have not run yet
  revoked,              \* <<device, callback>> whose unsubscribe closure was called last
  event,                \* the last step of the telemetry service and whom it called
  nsock,                \* sockets the telemetry service created so far
  opened,               \* sockets of the telemetry service that have been open
  csteps,               \* steps of the telemetry service so far
  socket,               \* WebSocketService: this.socket, 0 for null
  isConnected,          \* WebSocketService: this.isConnected
  reconnectAttempts,    \* WebSocketService: this.reconnectAttempts
  reconnectTimeout,     \* WebSocketService: the reconnect timer is pending
  wsReadyState,         \* WebSocketService: readyState of every socket it created
  wsOnclose,            \* WebSocketService: the onclose handler of every socket
  nws,                  \* sockets the WebSocketService created so far
  ncalls,               \* connect() calls of the application so far
  attempts,             \* sockets the reconnect timer created since the last open
  did                   \* the last step of the WebSocketService

intake == <<inbox, arrivals, order>>

telemetryService ==
  <<wsConnection, socketState, socketDevice, serverSubscribed, pingInterval,
    reconnectInterval, pingTimers, reconnectTimers, wsSubscribers,
    telemetryCache, timeouts, revoked, event, nsock, opened, csteps>>

webSocketService ==
  <<socket, isConnected, reconnectAttempts, reconnectTimeout, wsReadyState,
    wsOnclose, nws, ncalls, attempts, did>>

browser == <<telemetryService, webSocketService>>

vars ==
  <<producers, consumers, deviceSubscriptions, readyState, lastActivity,
    clientType, now, running, hasGlobalWebSocket, nconn, nframes, nticks,
    steps, bseq, sent, received, last, intake, browser>>

registry == <<producers, consumers, deviceSubscriptions>>

server ==
  <<registry, readyState, lastActivity, clientType, now, running,
    hasGlobalWebSocket, nconn, nframes, nticks, steps, bseq, sent, received,
    last, intake>>

\* ------------------------------------------------------------- helpers
RECURSIVE SumOver(_, _)
SumOver(f, S) ==
  IF S = {} THEN 0
  ELSE LET x == CHOOSE y \in S : TRUE IN f[x] + SumOver(f, S \ {x})

Copies(n, m) == [i \in 1..n |-> m]

NoSends == [c \in Conns |-> <<>>]

Tag(m) == [type |-> m.type, seq |-> m.seq]

\* A channel that hands a later write to the peer ahead of earlier ones.
DeliverFirst(out) ==
  [c \in Conns |-> [i \in 1..Len(out[c]) |-> Tag(out[c][i])] \o received[c]]

\* client.send(message): the channel carries writes in the order made
Deliver(out) == [c \in Conns |-> received[c] \o [i \in 1..Len(out[c]) |-> Tag(out[c][i])]]

Truthy(s) == s # Undefined

StampTruthy(t) == t # NoValue /\ t # 0

\* A message on the wire, as the receiving client parses it.
Message(type, seq) ==
  [type |-> type, seq |-> seq, deviceId |-> Undefined, device |-> Undefined,
   timestamp |-> now, temperature |-> NoValue, status |-> Undefined,
   clientType |-> Undefined]

\* clients.deviceSubscriptions[k] is an own Set
HasOwn(subs, k) == k \in DOMAIN subs

\* clients.deviceSubscriptions[k] is truthy: an own Set, or a member the
\* plain object inherits from Object.prototype
LookupTruthy(subs, k) == HasOwn(subs, k) \/ k \in ProtoKeys

\* Object.values(clients.deviceSubscriptions).some(s => s.has(client))
IsSubscribedToSpecificDevice(subs, c) == \E k \in DOMAIN subs : c \in subs[k]

\* deviceClients.delete(ws) on every own set
DeleteFromAll(subs, S) == [k \in DOMAIN subs |-> subs[k] \ S]

\* The clean-up left out: emptied sets stay in the index.
CleanUpNothing(subs) == subs

\* delete of every own key whose set is empty
CleanUpEmpty(subs) ==
  [k \in {j \in DOMAIN subs : subs[j] # {}} |-> subs[k]]

\* the keys the clean-up logs as "Removed empty subscription for device"
RemovedKeys(subs) == {k \in DOMAIN subs : subs[k] = {}}

\* if (!subs[k]) subs[k] = new Set(); subs[k].add(ws)
\* A key the object inherits is truthy and has no add(): TypeError.
AddThrows(subs, k) == k \notin DOMAIN subs /\ k \in ProtoKeys

AddSubscription(subs, k, c) ==
  IF HasOwn(subs, k)
  THEN [subs EXCEPT ![k] = @ \cup {c}]
  ELSE [j \in DOMAIN subs \cup {k} |-> IF j = k THEN {c} ELSE subs[j]]

\* ------------------------------------------------------- broadcastTelemetry
\* const deviceId = data.deviceId || data.device
\* The target as it would be if the device field came first.
TargetDevicePrefersDevice(data) ==
  IF Truthy(data.device) THEN data.device ELSE data.deviceId

\* const deviceId = data.deviceId || data.device
TargetDevice(data) ==
  IF Truthy(data.deviceId) THEN data.deviceId ELSE data.device

\* The broadcast as it would be if it always stamped the event itself.
EnsureTimestampAlwaysNow(data) == now

\* if (!data.timestamp) data.timestamp = new Date().toISOString()
EnsureTimestamp(data) ==
  IF StampTruthy(data.timestamp) THEN data.timestamp ELSE now

\* The event as it would be if the resolved target were written back as
\* its deviceId.
TelemetryMessageNormalised(data, seq) ==
  [Message("telemetry", seq) EXCEPT
     !.type = IF Truthy(data.type) THEN data.type ELSE "telemetry",
     !.timestamp = EnsureTimestamp(data),
     !.deviceId = TargetDevice(data),
     !.device = data.device,
     !.temperature = data.temperature]

\* JSON.stringify({type: 'telemetry', timestamp: data.timestamp, ...data}),
\* as the recipient parses it: the spread copies every property the payload
\* has over the two defaults.
TelemetryMessage(data, seq) ==
  [Message("telemetry", seq) EXCEPT
     !.type = IF Truthy(data.type) THEN data.type ELSE "telemetry",
     !.timestamp = EnsureTimestamp(data),
     !.deviceId = data.deviceId,
     !.device = data.device,
     !.temperature = data.temperature]

\* The broadcast as it would be if it also failed on a subscriber whose
\* channel has left OPEN.
TelemetryThrowsOnGoneSubscriber(subs, data) ==
  LET d == TargetDevice(data) IN
  /\ Truthy(d)
  /\ LookupTruthy(subs, d)
  /\ (~HasOwn(subs, d) \/ \E c \in subs[d] : readyState[c] # "OPEN")

\* clients.deviceSubscriptions[deviceId].forEach on a value that is truthy
\* but no Set (an inherited member of the plain object) is a TypeError.
TelemetryThrows(subs, data) ==
  LET d == TargetDevice(data) IN
  Truthy(d) /\ LookupTruthy(subs, d) /\ ~HasOwn(subs, d)

\* The first loop as it would be if an event that names no device went to
\* every subscriber.
SubscriberWritesWhenUntargeted(subs, data, c) ==
  LET d == TargetDevice(data) IN
  IF readyState[c] = "OPEN"
     /\ \/ Truthy(d) /\ HasOwn(subs, d) /\ c \in subs[d]
        \/ ~Truthy(d) /\ IsSubscribedToSpecificDevice(subs, c)
  THEN 1 ELSE 0

\* The first loop as it would be without the readyState test.
SubscriberWritesAnyState(subs, data, c) ==
  LET d == TargetDevice(data) IN
  IF Truthy(d) /\ HasOwn(subs, d) /\ c \in subs[d] THEN 1 ELSE 0

\* The first loop as it would be with the device test left out: every
\* member of any device's set is written to.
SubscriberWritesAnyDevice(subs, data, c) ==
  IF IsSubscribedToSpecificDevice(subs, c) /\ readyState[c] = "OPEN"
  THEN 1 ELSE 0

\* first loop: the subscribers of the event's device
SubscriberWrites(subs, data, c) ==
  LET d == TargetDevice(data) IN
  IF Truthy(d) /\ HasOwn(subs, d) /\ c \in subs[d] /\ readyState[c] = "OPEN"
  THEN 1 ELSE 0

\* The second loop as it would be without the isSubscribedToSpecificDevice
\* test: every open consumer is written to.
FallbackWritesUnfiltered(subs, c) ==
  IF c \in consumers /\ readyState[c] = "OPEN" THEN 1 ELSE 0

\* The second loop as it would be without the readyState test.
FallbackWritesAnyState(subs, c) ==
  IF c \in consumers /\ ~IsSubscribedToSpecificDevice(subs, c) THEN 1 ELSE 0

\* second loop: the consumers that are in no device's set
FallbackWrites(subs, c) ==
  IF c \in consumers /\ ~IsSubscribedToSpecificDevice(subs, c)
     /\ readyState[c] = "OPEN"
  THEN 1 ELSE 0

TelemetryWrites(subs, data, c) ==
  SubscriberWrites(subs, data, c) + FallbackWrites(subs, c)

\* The call as it would be if subscriberCount were advanced in the first
\* loop only.
BroadcastTelemetryCountsSubscribers(data) ==
  LET subs == deviceSubscriptions
      msg == TelemetryMessage(data, bseq + 1)
      n == [c \in Conns |-> TelemetryWrites(subs, data, c)]
      k == [c \in Conns |-> SubscriberWrites(subs, data, c)]
  IN IF TelemetryThrows(subs, data)
     THEN [threw |-> TRUE, out |-> NoSends, count |-> NoValue]
     ELSE [threw |-> FALSE, out |-> [c \in Conns |-> Copies(n[c], msg)],
           count |-> SumOver(k, Conns)]

\* The outcome of one call: whether it threw, what it wrote to whom, and
\* the subscriberCount it returned.
BroadcastTelemetry(data) ==
  LET subs == deviceSubscriptions
      msg == TelemetryMessage(data, bseq + 1)
      n == [c \in Conns |-> TelemetryWrites(subs, data, c)]
  IN IF TelemetryThrows(subs, data)
     THEN [threw |-> TRUE, out |-> NoSends, count |-> NoValue]
     ELSE [threw |-> FALSE, out |-> [c \in Conns |-> Copies(n[c], msg)],
           count |-> SumOver(n, Conns)]

\* ----------------------------------------------------------- broadcastAlarm
\* JSON.stringify({type: 'alarm', timestamp: <now>, ...data})
AlarmMessage(data, seq) ==
  [Message("alarm", seq) EXCEPT
     !.type = IF Truthy(data.type) THEN data.type ELSE "alarm",
     !.timestamp = IF data.timestamp # NoValue THEN data.timestamp ELSE now,
     !.deviceId = data.deviceId,
     !.device = data.device,
     !.temperature = data.temperature]

\* The alarm loop as it would be with telemetry's subscription filter.
AlarmWritesUnsubscribedOnly(c) ==
  IF c \in consumers /\ readyState[c] = "OPEN"
     /\ ~IsSubscribedToSpecificDevice(deviceSubscriptions, c)
  THEN 1 ELSE 0

AlarmWrites(c) ==
  IF c \in consumers /\ readyState[c] = "OPEN" THEN 1 ELSE 0

BroadcastAlarm(data) ==
  LET msg == AlarmMessage(data, bseq + 1) IN
  [threw |-> FALSE, out |-> [c \in Conns |-> Copies(AlarmWrites(c), msg)],
   count |-> NoValue]

\* ------------------------------------------------------------------ state
EmptyIndex == [k \in {} |-> {}]

Outcome(op, c, f, threw, count) ==
  [op |-> op, conn |-> c, frame |-> f, threw |-> threw, count |-> count,
   probes |-> {}, removed |-> {}, failed |-> 0, param |-> Undefined,
   deviceId |-> Undefined]

\* ------------------------------------------- client telemetry service
MaxSockets == 3       \* sockets the telemetry service creates in a behaviour
MaxClientSteps == 6   \* steps of the telemetry service in a behaviour

Sockets == 1..MaxSockets
Callbacks == {"cb1", "cb2"}
SocketStates == {"NONE", "CONNECTING", "OPEN", "CLOSING", "CLOSED"}

\* A pending setTimeout callback: the deferred parse of a frame
\* ("message"), the deferred notification ("notify"), and the two initial
\* deliveries subscribeTelemetry schedules ("latest", "realtime").
Timeout(kind, deviceId, callback) ==
  [kind |-> kind, device |-> deviceId, callback |-> callback]

Step(op, s, deviceId, callback, called) ==
  [op |-> op, socket |-> s, device |-> deviceId, callback |-> callback,
   called |-> called]

\* The module as it is loaded: no socket, no timer, no subscriber.
ServiceIdle ==
  /\ wsConnection = 0
  /\ socketState = [s \in Sockets |-> "NONE"]
  /\ socketDevice = [s \in Sockets |-> Undefined]
  /\ serverSubscribed = [s \in Sockets |-> {}]
  /\ pingInterval = FALSE
  /\ reconnectInterval = <<>>
  /\ pingTimers = 0
  /\ reconnectTimers = 0
  /\ wsSubscribers = EmptyIndex
  /\ telemetryCache = [latest |-> {}, realtime |-> {}]
  /\ timeouts = {}
  /\ revoked = {}
  /\ event = Step("init", 0, Undefined, Undefined, {})
  /\ nsock = 0
  /\ opened = {}
  /\ csteps = 0

\* ---------------------------------------------- client WebSocketService
maxReconnectAttempts == 5

MaxServiceSockets == 8   \* sockets the WebSocketService creates in a behaviour
MaxCalls == 2            \* connect() calls of the application in a behaviour

ServiceSockets == 1..MaxServiceSockets

Did(op, s, handler, scheduled) ==
  [op |-> op, socket |-> s, handler |-> handler, scheduled |-> scheduled]

\* The singleton as its constructor leaves it.
Constructed ==
  /\ socket = 0
  /\ isConnected = FALSE
  /\ reconnectAttempts = 0
  /\ reconnectTimeout = FALSE
  /\ wsReadyState = [s \in ServiceSockets |-> "NONE"]
  /\ wsOnclose = [s \in ServiceSockets |-> "none"]
  /\ nws = 0
  /\ ncalls = 0
  /\ attempts = 0
  /\ did = Did("init", 0, "none", FALSE)

BrowserIdle == ServiceIdle /\ Constructed

\* No frame is waiting: the handlers below are given each frame as it
\* arrives.
NothingArrived ==
  /\ inbox = NoSends
  /\ arrivals = 0
  /\ order = NoSends

Init ==
  /\ producers = {}
  /\ consumers = {}
  /\ deviceSubscriptions = EmptyIndex
  /\ readyState = [c \in Conns |-> "NONE"]
  /\ lastActivity = [c \in Conns |-> 0]
  /\ clientType = [c \in Conns |-> Undefined]
  /\ now = 0
  /\ running = TRUE
  /\ hasGlobalWebSocket \in BOOLEAN
  /\ nconn = 0
  /\ nframes = 0
  /\ nticks = 0
  /\ steps = 0
  /\ bseq = 0
  /\ sent = NoSends
  /\ received = NoSends
  /\ last = Outcome("init", 0, NoFrame, FALSE, NoValue)
  /\ NothingArrived
  /\ BrowserIdle

\* An exception no handler catches ends the process: every channel drops
\* and the in-memory registry is gone.
\* `out` is what the handler had written before it threw.
ExitWith(outcome, out) ==
  /\ running' = FALSE
  /\ producers' = {}
  /\ consumers' = {}
  /\ deviceSubscriptions' = EmptyIndex
  /\ readyState' = [x \in Conns |->
       IF readyState[x] = "NONE" /\ x # outcome.conn THEN "NONE" ELSE "CLOSED"]
  /\ lastActivity' = [x \in Conns |-> 0]
  /\ clientType' = [x \in Conns |-> Undefined]
  /\ sent' = out
  /\ received' = Deliver(out)
  /\ last' = outcome
  /\ UNCHANGED <<now, hasGlobalWebSocket>>

Exit(op, c) ==
  /\ ExitWith(Outcome(op, c, NoFrame, TRUE, NoValue), NoSends)
  /\ UNCHANGED <<nframes, bseq>>

\* One more handler run or clock jump, within the budget of a behaviour.
Tick == steps < MaxSteps /\ steps' = steps + 1

\* A handler runs at one instant: the clock does not jump under it.
ServerRuns == running /\ Tick /\ UNCHANGED <<nticks, browser>>

HandlerRuns == ServerRuns /\ UNCHANGED intake

\* ------------------------------------------------- wss.on('connection')
ClientTypeParams == {Undefined, "producer", "consumer"}

\* The role as it would be with producer for a default.
ClientTypeOfDefaultProducer(param) ==
  IF Truthy(param) THEN param ELSE "producer"

\* url.searchParams.get('clientType') || 'consumer'
ClientTypeOf(param) == IF Truthy(param) THEN param ELSE "consumer"

ConnectionMessage(type) ==
  [Message("connection", 0) EXCEPT !.status = "connected", !.clientType = type]

\* The deviceId branch of a consumer's admission throws; nothing catches it.
ConnectThrows(type, deviceId) ==
  /\ type # "producer"
  /\ Truthy(deviceId)
  /\ AddThrows(deviceSubscriptions, deviceId)

Connect(param, deviceId) ==
  LET c == nconn + 1
      type == ClientTypeOf(param)
      out == [NoSends EXCEPT ![c] = <<ConnectionMessage(type)>>]
  IN
  /\ HandlerRuns
  /\ nconn < MaxConns
  /\ nconn' = c
  /\ IF ConnectThrows(type, deviceId)
     THEN Exit("connect", c)
     ELSE /\ readyState' = [readyState EXCEPT ![c] = "OPEN"]
          /\ lastActivity' = [lastActivity EXCEPT ![c] = now]
          /\ clientType' = [clientType EXCEPT ![c] = type]
          /\ producers' = IF type = "producer" THEN producers \cup {c} ELSE producers
          /\ consumers' = IF type = "producer" THEN consumers ELSE consumers \cup {c}
          /\ deviceSubscriptions' =
               IF type # "producer" /\ Truthy(deviceId)
               THEN AddSubscription(deviceSubscriptions, deviceId, c)
               ELSE deviceSubscriptions
          /\ sent' = out
          /\ received' = Deliver(out)
          /\ last' = [Outcome("connect", c, NoFrame, FALSE, NoValue)
                        EXCEPT !.param = param, !.deviceId = deviceId]
          /\ UNCHANGED <<now, running, hasGlobalWebSocket, nframes, bseq>>

\* ------------------------------------------------------ ws.on('message')
\* JSON.parse(message) throws on text that is no JSON.
ParseThrows(f) == f.parse = "error"

\* Reading data.type of null throws inside the try block.
DispatchThrows(f) ==
  \/ f.parse = "null"
  \/ f.type = "telemetry" /\ TelemetryThrows(deviceSubscriptions, f)
  \/ f.type = "subscribe" /\ Truthy(f.deviceId)
       /\ AddThrows(deviceSubscriptions, f.deviceId)

PongMessage == Message("pong", 0)

SubscriptionConfirmed(deviceId) ==
  [Message("subscription_confirmed", 0) EXCEPT !.deviceId = deviceId]

\* The handler as it would be if its catch block answered the sender.
MessageWritesErrorReply(c, f) ==
  IF ParseThrows(f) THEN [NoSends EXCEPT ![c] = <<Message("error", 0)>>]
  ELSE IF DispatchThrows(f) THEN NoSends
  ELSE IF f.type = "telemetry" THEN BroadcastTelemetry(f).out
  ELSE IF f.type = "alarm" THEN BroadcastAlarm(f).out
  ELSE IF f.type = "ping" THEN [NoSends EXCEPT ![c] = <<PongMessage>>]
  ELSE IF f.type = "subscribe" /\ Truthy(f.deviceId)
       THEN [NoSends EXCEPT ![c] = <<SubscriptionConfirmed(f.deviceId)>>]
  ELSE NoSends

\* The handler as it would be if a ping were answered on every consumer's
\* channel.
MessageWritesPongToAll(c, f) ==
  IF ParseThrows(f) \/ DispatchThrows(f) THEN NoSends
  ELSE IF f.type = "telemetry" THEN BroadcastTelemetry(f).out
  ELSE IF f.type = "alarm" THEN BroadcastAlarm(f).out
  ELSE IF f.type = "ping"
       THEN [x \in Conns |->
               IF x = c \/ (x \in consumers /\ readyState[x] = "OPEN")
               THEN <<PongMessage>> ELSE <<>>]
  ELSE IF f.type = "subscribe" /\ Truthy(f.deviceId)
       THEN [NoSends EXCEPT ![c] = <<SubscriptionConfirmed(f.deviceId)>>]
  ELSE NoSends

\* The handler as it would be if a type it does not know were answered
\* with an error event.
MessageWritesUnknownReply(c, f) ==
  IF ParseThrows(f) \/ DispatchThrows(f) THEN NoSends
  ELSE IF f.type = "telemetry" THEN BroadcastTelemetry(f).out
  ELSE IF f.type = "alarm" THEN BroadcastAlarm(f).out
  ELSE IF f.type = "ping" THEN [NoSends EXCEPT ![c] = <<PongMessage>>]
  ELSE IF f.type = "subscribe"
       THEN IF Truthy(f.deviceId)
            THEN [NoSends EXCEPT ![c] = <<SubscriptionConfirmed(f.deviceId)>>]
            ELSE NoSends
  ELSE [NoSends EXCEPT ![c] = <<Message("error", 0)>>]

\* The handler as it would be if every subscribe frame were confirmed.
MessageWritesConfirmsAnySubscribe(c, f) ==
  IF ParseThrows(f) \/ DispatchThrows(f) THEN NoSends
  ELSE IF f.type = "telemetry" THEN BroadcastTelemetry(f).out
  ELSE IF f.type = "alarm" THEN BroadcastAlarm(f).out
  ELSE IF f.type = "ping" THEN [NoSends EXCEPT ![c] = <<PongMessage>>]
  ELSE IF f.type = "subscribe"
       THEN [NoSends EXCEPT ![c] = <<SubscriptionConfirmed(f.deviceId)>>]
  ELSE NoSends

\* What handling frame f from connection c writes, per connection.
MessageWrites(c, f) ==
  IF ParseThrows(f) \/ DispatchThrows(f) THEN NoSends
  ELSE IF f.type = "telemetry" THEN BroadcastTelemetry(f).out
  ELSE IF f.type = "alarm" THEN BroadcastAlarm(f).out
  ELSE IF f.type = "ping" THEN [NoSends EXCEPT ![c] = <<PongMessage>>]
  ELSE IF f.type = "subscribe" /\ Truthy(f.deviceId)
       THEN [NoSends EXCEPT ![c] = <<SubscriptionConfirmed(f.deviceId)>>]
  ELSE NoSends

MessageSubscriptions(c, f) ==
  IF ~ParseThrows(f) /\ ~DispatchThrows(f)
     /\ f.type = "subscribe" /\ Truthy(f.deviceId)
  THEN AddSubscription(deviceSubscriptions, f.deviceId, c)
  ELSE deviceSubscriptions

IsBroadcast(f) ==
  f.parse = "object" /\ f.type \in {"telemetry", "alarm"}

MessageStep(c, f) ==
  LET out == MessageWrites(c, f) IN
  /\ readyState[c] = "OPEN"
  /\ nframes < MaxFrames
  /\ nframes' = nframes + 1
  /\ lastActivity' =
       IF ParseThrows(f) THEN lastActivity
       ELSE [lastActivity EXCEPT ![c] = now]
  /\ deviceSubscriptions' = MessageSubscriptions(c, f)
  /\ bseq' = IF IsBroadcast(f) THEN bseq + 1 ELSE bseq
  /\ sent' = out
  /\ received' = Deliver(out)
  /\ last' = Outcome("message", c, f, ParseThrows(f) \/ DispatchThrows(f),
                     IF f.type = "telemetry" /\ ~DispatchThrows(f)
                     THEN BroadcastTelemetry(f).count ELSE NoValue)
  /\ UNCHANGED <<producers, consumers, readyState, clientType, now, running,
                 hasGlobalWebSocket, nconn>>

OnMessage(c, f) == HandlerRuns /\ MessageStep(c, f)

\* --------------------------------------------------------- ws.on('pong')
OnPong(c) ==
  /\ HandlerRuns
  /\ readyState[c] = "OPEN"
  /\ lastActivity' = [lastActivity EXCEPT ![c] = now]
  /\ sent' = NoSends
  /\ last' = Outcome("pong", c, NoFrame, FALSE, NoValue)
  /\ UNCHANGED <<registry, readyState, clientType, now, running,
                 hasGlobalWebSocket, nconn, nframes, bseq, received>>

\* -------------------------------------------------------- ws.on('close')
\* The peer's close frame or a socket error: the channel leaves OPEN and
\* the 'close' event follows later.
ChannelClosing(c) ==
  /\ HandlerRuns
  /\ readyState[c] = "OPEN"
  /\ readyState' = [readyState EXCEPT ![c] = "CLOSING"]
  /\ sent' = NoSends
  /\ last' = Outcome("closing", c, NoFrame, FALSE, NoValue)
  /\ UNCHANGED <<registry, lastActivity, clientType, now, running,
                 hasGlobalWebSocket, nconn, nframes, bseq, received>>

OnClose(c) ==
  /\ HandlerRuns
  /\ readyState[c] \in {"OPEN", "CLOSING"}
  /\ readyState' = [readyState EXCEPT ![c] = "CLOSED"]
  /\ producers' = producers \ {c}
  /\ consumers' = consumers \ {c}
  /\ deviceSubscriptions' = CleanUpEmpty(DeleteFromAll(deviceSubscriptions, {c}))
  /\ sent' = NoSends
  /\ last' = [Outcome("close", c, NoFrame, FALSE, NoValue) EXCEPT
                !.removed = RemovedKeys(DeleteFromAll(deviceSubscriptions, {c}))]
  /\ UNCHANGED <<lastActivity, clientType, now, running, hasGlobalWebSocket,
                 nconn, nframes, bseq, received>>

\* ------------------------------------------------------- startHeartbeat
\* now - client.lastActivity > 120000
Idle(c) == now - lastActivity[c] > Deadline

\* server.js imports only WebSocketServer: the else-branch's WebSocket.OPEN
\* is a ReferenceError unless the runtime itself defines WebSocket.  It is
\* evaluated for every client that is not past the deadline.
SweepThrows ==
  ~hasGlobalWebSocket /\ \E c \in producers \cup consumers : ~Idle(c)

DeadProducers == {c \in producers : Idle(c)}

DeadConsumers == {c \in consumers : Idle(c)}

\* client.terminate(): an open or closing channel is destroyed
Terminate(rs, S) ==
  [c \in Conns |-> IF c \in S /\ rs[c] # "CLOSED" THEN "CLOSING" ELSE rs[c]]

\* client.ping() for the clients within the deadline whose channel is open
Probed ==
  {c \in producers \cup consumers : ~Idle(c) /\ readyState[c] = "OPEN"}

\* The sweep without its closing clean-up pass.
SweepSubscriptionsNoCleanUp ==
  DeleteFromAll(deviceSubscriptions, DeadConsumers)

\* Producers are only deleted from clients.producers; consumers are also
\* deleted from every device set.
SweepSubscriptions ==
  CleanUpEmpty(DeleteFromAll(deviceSubscriptions, DeadConsumers))

Sweep ==
  /\ HandlerRuns
  /\ IF SweepThrows
     THEN Exit("sweep", 0) /\ UNCHANGED nconn
     ELSE /\ readyState' = Terminate(readyState, DeadProducers \cup DeadConsumers)
          /\ producers' = producers \ DeadProducers
          /\ consumers' = consumers \ DeadConsumers
          /\ deviceSubscriptions' = SweepSubscriptions
          /\ sent' = NoSends
          /\ last' = [Outcome("sweep", 0, NoFrame, FALSE, NoValue)
                        EXCEPT !.probes = Probed,
                               !.removed = RemovedKeys(DeleteFromAll(
                                 deviceSubscriptions, DeadConsumers))]
          /\ UNCHANGED <<lastActivity, clientType, now, running,
                         hasGlobalWebSocket, nconn, nframes, bseq, received>>

\* --------------------------------------------------- startDataSimulation
Simulate(data) ==
  LET r == BroadcastTelemetry(data) IN
  /\ HandlerRuns
  /\ nframes < MaxFrames
  /\ nframes' = nframes + 1
  /\ bseq' = bseq + 1
  /\ sent' = r.out
  /\ received' = Deliver(r.out)
  /\ last' = Outcome("simulate", 0, data, r.threw, r.count)
  /\ UNCHANGED <<registry, readyState, lastActivity, clientType, now, running,
                 hasGlobalWebSocket, nconn>>

\* ------------------------------------------------- client.send that raises
\* Neither broadcaster wraps client.send in a try: an exception raised by
\* the write to recipient b leaves the forEach, so the recipients the loop
\* had not reached are not written.  clients.consumers is iterated in
\* insertion order, which is the order of admission; b is a recipient of the
\* consumers loop, so the device loop before it has completed.
TelemetryWritesBefore(subs, data, b, c) ==
  SubscriberWrites(subs, data, c)
    + (IF c < b THEN FallbackWrites(subs, c) ELSE 0)

AlarmWritesBefore(b, c) == IF c < b THEN AlarmWrites(c) ELSE 0

CanFail(f, b) ==
  IF f.type = "telemetry"
  THEN /\ ~TelemetryThrows(deviceSubscriptions, f)
       /\ FallbackWrites(deviceSubscriptions, b) = 1
  ELSE AlarmWrites(b) = 1

WritesBeforeFailure(f, b) ==
  IF f.type = "telemetry"
  THEN [c \in Conns |->
          Copies(TelemetryWritesBefore(deviceSubscriptions, f, b, c),
                 TelemetryMessage(f, bseq + 1))]
  ELSE [c \in Conns |->
          Copies(AlarmWritesBefore(b, c), AlarmMessage(f, bseq + 1))]

\* A telemetry or alarm frame whose broadcast raises at recipient b: the
\* exception reaches the catch of the message handler, which logs it.
OnMessageSendFails(c, f, b) ==
  LET out == WritesBeforeFailure(f, b) IN
  /\ HandlerRuns
  /\ readyState[c] = "OPEN"
  /\ nframes < MaxFrames
  /\ IsBroadcast(f)
  /\ CanFail(f, b)
  /\ nframes' = nframes + 1
  /\ lastActivity' = [lastActivity EXCEPT ![c] = now]
  /\ bseq' = bseq + 1
  /\ sent' = out
  /\ received' = Deliver(out)
  /\ last' = [Outcome("message", c, f, TRUE, NoValue) EXCEPT !.failed = b]
  /\ UNCHANGED <<registry, readyState, clientType, now, running,
                 hasGlobalWebSocket, nconn>>

\* The simulated broadcast raises at recipient b: the interval callback has
\* no catch, so the exception is uncaught.
SimulateSendFails(data, b) ==
  /\ HandlerRuns
  /\ nframes < MaxFrames
  /\ CanFail(data, b)
  /\ nframes' = nframes + 1
  /\ bseq' = bseq + 1
  /\ ExitWith([Outcome("simulate", 0, data, TRUE, NoValue) EXCEPT !.failed = b],
              WritesBeforeFailure(data, b))
  /\ UNCHANGED nconn

\* ------------------------------------------------------------------ clock
\* The clock jumps to the deadline exactly, or just past it.
TimeSteps == {Deadline, Deadline + 1}

Advance(d) ==
  /\ running
  /\ Tick
  /\ nticks < MaxTicks
  /\ nticks' = nticks + 1
  /\ now' = now + d
  /\ sent' = NoSends
  /\ last' = Outcome("advance", 0, NoFrame, FALSE, NoValue)
  /\ UNCHANGED <<registry, readyState, lastActivity, clientType, running,
                 hasGlobalWebSocket, nconn, nframes, bseq, received, intake,
                 browser>>

\* ---------------------------------------------------------- specification
Next ==
  \/ \E p \in ClientTypeParams, d \in {Undefined} \cup DeviceKeys : Connect(p, d)
  \/ \E c \in Conns, f \in Frames : OnMessage(c, f)
  \/ \E c \in Conns : OnPong(c)
  \/ \E c \in Conns : ChannelClosing(c)
  \/ \E c \in Conns : OnClose(c)
  \/ Sweep
  \/ \E data \in SimulatedData : Simulate(data)
  \/ \E d \in TimeSteps : Advance(d)

Spec == Init /\ [][Next]_vars

\* The same server in an environment where a write to an open channel can
\* raise.
NextFaulty ==
  \/ Next
  \/ \E c \in Conns, f \in TelemetryFrames \cup AlarmFrames, b \in Conns :
       OnMessageSendFails(c, f, b)
  \/ \E data \in SimulatedData, b \in Conns : SimulateSendFails(data, b)

SpecFaulty == Init /\ [][NextFaulty]_vars

\* ------------------------------------------------ frames in arrival order
\* The frames a connection sends wait in the order they arrived; the
\* 'message' event is emitted for one frame at a time and the handler, which
\* awaits nothing, has written its replies and broadcasts when it returns.
ArrivingFrames ==
  {Frame("ping", Undefined, Undefined, NoValue, NoValue),
   Frame("subscribe", "esp32", Undefined, NoValue, NoValue),
   Frame("telemetry", "esp32", Undefined, 7, 70),
   Frame("alarm", Undefined, "esp32", 7, NoValue),
   [NoFrame EXCEPT !.parse = "error"]}

Arrive(c, f) ==
  /\ running
  /\ readyState[c] = "OPEN"
  /\ arrivals < MaxFrames
  /\ arrivals' = arrivals + 1
  /\ inbox' = [inbox EXCEPT ![c] = Append(@, [frame |-> f, n |-> arrivals + 1])]
  /\ UNCHANGED <<registry, readyState, lastActivity, clientType, now, running,
                 hasGlobalWebSocket, nconn, nframes, nticks, steps, bseq,
                 sent, received, last, order, browser>>

\* The event as it would be if the newest waiting frame were taken first.
DequeueNewest(q) == [item |-> q[Len(q)], rest |-> SubSeq(q, 1, Len(q) - 1)]

Dequeue(q) == [item |-> Head(q), rest |-> Tail(q)]

\* who caused what the handler wrote, appended per recipient
Caused(c, n, out) ==
  [x \in Conns |-> order[x] \o [i \in 1..Len(out[x]) |-> [from |-> c, n |-> n]]]

HandleNext(c) ==
  /\ ServerRuns
  /\ inbox[c] # <<>>
  /\ LET d == Dequeue(inbox[c]) IN
       /\ MessageStep(c, d.item.frame)
       /\ inbox' = [inbox EXCEPT ![c] = d.rest]
       /\ order' = Caused(c, d.item.n, MessageWrites(c, d.item.frame))
  /\ UNCHANGED arrivals

\* The server after a producer and then a consumer have connected, with a
\* fresh budget of steps.
InitTwoClients ==
  /\ producers = {1}
  /\ consumers = {2}
  /\ deviceSubscriptions = EmptyIndex
  /\ readyState = [c \in Conns |-> IF c \in {1, 2} THEN "OPEN" ELSE "NONE"]
  /\ lastActivity = [c \in Conns |-> 0]
  /\ clientType = [c \in Conns |->
       IF c = 1 THEN "producer" ELSE IF c = 2 THEN "consumer" ELSE Undefined]
  /\ now = 0
  /\ running = TRUE
  /\ hasGlobalWebSocket \in BOOLEAN
  /\ nconn = 2
  /\ nframes = 0
  /\ nticks = 0
  /\ steps = 0
  /\ bseq = 0
  /\ sent = [NoSends EXCEPT ![2] = <<ConnectionMessage("consumer")>>]
  /\ received = [c \in Conns |->
       IF c = 1 THEN <<Tag(ConnectionMessage("producer"))>>
       ELSE IF c = 2 THEN <<Tag(ConnectionMessage("consumer"))>> ELSE <<>>]
  /\ last = [Outcome("connect", 2, NoFrame, FALSE, NoValue)
               EXCEPT !.param = "consumer"]
  /\ NothingArrived
  /\ BrowserIdle

NextOrdered ==
  \/ \E c \in Conns, f \in ArrivingFrames : Arrive(c, f)
  \/ \E c \in Conns : HandleNext(c)

SpecOrdered == InitTwoClients /\ [][NextOrdered]_vars

\* The server after a producer has connected and sent a subscribe frame for
\* esp32, with a fresh budget of steps: the start of the behaviours that
\* follow one connection through sweep and close.
SubscribeEsp32 == Frame("subscribe", "esp32", Undefined, NoValue, NoValue)

InitSubscribedProducer ==
  /\ producers = {1}
  /\ consumers = {}
  /\ deviceSubscriptions = AddSubscription(EmptyIndex, "esp32", 1)
  /\ readyState = [c \in Conns |-> IF c = 1 THEN "OPEN" ELSE "NONE"]
  /\ lastActivity = [c \in Conns |-> 0]
  /\ clientType = [c \in Conns |-> IF c = 1 THEN "producer" ELSE Undefined]
  /\ now = 0
  /\ running = TRUE
  /\ hasGlobalWebSocket \in BOOLEAN
  /\ nconn = 1
  /\ nframes = 1
  /\ nticks = 0
  /\ steps = 0
  /\ bseq = 0
  /\ sent = [NoSends EXCEPT ![1] = <<SubscriptionConfirmed("esp32")>>]
  /\ received = [NoSends EXCEPT ![1] =
       <<Tag(ConnectionMessage("producer")), Tag(SubscriptionConfirmed("esp32"))>>]
  /\ last = Outcome("message", 1, SubscribeEsp32, FALSE, NoValue)
  /\ NothingArrived
  /\ BrowserIdle

SpecTeardown == InitSubscribedProducer /\ [][Next]_vars

\* ------------------------------------------- client telemetry service
\* One more step of the telemetry service, within the budget of a
\* behaviour; the server is left alone.
ServiceRuns ==
  /\ csteps < MaxClientSteps
  /\ csteps' = csteps + 1
  /\ UNCHANGED <<server, webSocketService>>

\* Only onopen adds to the sockets that have been open.
NoneOpens == ServiceRuns /\ UNCHANGED opened

\* initWebSocket(deviceId): nothing while the current socket is open or
\* connecting, else a new socket whose handlers close over deviceId.
initWebSocket(deviceId) ==
  IF wsConnection # 0 /\ socketState[wsConnection] \in {"OPEN", "CONNECTING"}
  THEN UNCHANGED <<wsConnection, socketState, socketDevice, nsock>>
  ELSE /\ nsock < MaxSockets
       /\ nsock' = nsock + 1
       /\ wsConnection' = nsock + 1
       /\ socketState' = [socketState EXCEPT ![nsock + 1] = "CONNECTING"]
       /\ socketDevice' = [socketDevice EXCEPT ![nsock + 1] = deviceId]

startPingInterval ==
  /\ pingTimers' = (IF pingInterval THEN pingTimers - 1 ELSE pingTimers) + 1
  /\ pingInterval' = TRUE

stopPingInterval ==
  IF pingInterval
  THEN pingTimers' = pingTimers - 1 /\ pingInterval' = FALSE
  ELSE UNCHANGED <<pingTimers, pingInterval>>

startReconnectInterval(deviceId) ==
  /\ reconnectTimers' =
       (IF reconnectInterval # <<>> THEN reconnectTimers - 1 ELSE reconnectTimers) + 1
  /\ reconnectInterval' = <<deviceId>>

stopReconnectInterval ==
  IF reconnectInterval # <<>>
  THEN reconnectTimers' = reconnectTimers - 1 /\ reconnectInterval' = <<>>
  ELSE UNCHANGED <<reconnectTimers, reconnectInterval>>

\* wsSubscribers.telemetry after callback is added under deviceId.
WithSubscriber(subs, deviceId, callback) ==
  [k \in DOMAIN subs \cup {deviceId} |->
     IF k = deviceId
     THEN (IF k \in DOMAIN subs THEN subs[k] ELSE {}) \cup {callback}
     ELSE subs[k]]

\* wsSubscribers.telemetry after the unsubscribe closure of (deviceId,
\* callback) ran: the callback leaves its set, an empty set leaves the map.
WithoutSubscriber(subs, deviceId, callback) ==
  IF deviceId \notin DOMAIN subs THEN subs
  ELSE LET subscribers == subs[deviceId] \ {callback}
           keys == IF subscribers = {} THEN DOMAIN subs \ {deviceId}
                   ELSE DOMAIN subs
       IN [k \in keys |-> IF k = deviceId THEN subscribers ELSE subs[k]]

\* The initial deliveries subscribeTelemetry schedules from the caches.
InitialDeliveries(deviceId, callback) ==
  {Timeout("latest", deviceId, callback) : x \in telemetryCache.latest \cap {deviceId}}
    \cup
  {Timeout("realtime", deviceId, callback) : x \in telemetryCache.realtime \cap {deviceId}}

\* The server's subscriptions of socket s once it read a subscribe frame.
Subscribed(subscribed, s, deviceId) ==
  [subscribed EXCEPT ![s] = @ \cup {deviceId}]

SubscribeTelemetry(deviceId, callback) ==
  /\ NoneOpens
  /\ initWebSocket(deviceId)
  /\ wsSubscribers' = WithSubscriber(wsSubscribers, deviceId, callback)
  /\ serverSubscribed' =
       IF wsConnection' # 0 /\ socketState'[wsConnection'] = "OPEN"
       THEN Subscribed(serverSubscribed, wsConnection', deviceId)
       ELSE serverSubscribed
  /\ timeouts' = timeouts \cup InitialDeliveries(deviceId, callback)
  /\ revoked' = revoked \ {<<deviceId, callback>>}
  /\ event' = Step("subscribeTelemetry", wsConnection', deviceId, callback, {})
  /\ UNCHANGED <<pingInterval, pingTimers, reconnectInterval, reconnectTimers,
                 telemetryCache>>

\* The closure subscribeTelemetry(deviceId, callback) returned is called.
Unsubscribe(deviceId, callback) ==
  /\ NoneOpens
  /\ \/ deviceId \in DOMAIN wsSubscribers /\ callback \in wsSubscribers[deviceId]
     \/ <<deviceId, callback>> \in revoked
  /\ wsSubscribers' = WithoutSubscriber(wsSubscribers, deviceId, callback)
  /\ revoked' = revoked \cup {<<deviceId, callback>>}
  /\ event' = Step("unsubscribe", wsConnection, deviceId, callback, {})
  /\ UNCHANGED <<wsConnection, socketState, socketDevice, nsock,
                 serverSubscribed, pingInterval, pingTimers, reconnectInterval,
                 reconnectTimers, telemetryCache, timeouts>>

SubscribeAlarms ==
  /\ NoneOpens
  /\ initWebSocket(Undefined)
  /\ event' = Step("subscribeAlarms", wsConnection', Undefined, Undefined, {})
  /\ UNCHANGED <<serverSubscribed, pingInterval, pingTimers, reconnectInterval,
                 reconnectTimers, wsSubscribers, telemetryCache, timeouts,
                 revoked>>

\* The server admits a consumer under the deviceId of its URL.
AdmittedWith(subscribed, s) ==
  [subscribed EXCEPT ![s] =
     IF socketDevice[s] # Undefined THEN {socketDevice[s]} ELSE {}]

\* onopen of socket s: the ping timer starts, the reconnect timer stops and
\* the deviceId the handler closed over is subscribed on the current socket.
SocketOpens(s) ==
  /\ ServiceRuns
  /\ opened' = opened \cup {s}
  /\ socketState[s] = "CONNECTING"
  /\ socketState' = [socketState EXCEPT ![s] = "OPEN"]
  /\ startPingInterval
  /\ stopReconnectInterval
  /\ serverSubscribed' =
       IF socketDevice[s] # Undefined
       THEN Subscribed(AdmittedWith(serverSubscribed, s), wsConnection, socketDevice[s])
       ELSE AdmittedWith(serverSubscribed, s)
  /\ event' = Step("open", s, socketDevice[s], Undefined, {})
  /\ UNCHANGED <<wsConnection, socketDevice, nsock, wsSubscribers,
                 telemetryCache, timeouts, revoked>>

\* The closing handshake of an open socket starts: no handler runs yet.
SocketClosing(s) ==
  /\ NoneOpens
  /\ socketState[s] = "OPEN"
  /\ socketState' = [socketState EXCEPT ![s] = "CLOSING"]
  /\ event' = Step("closing", s, socketDevice[s], Undefined, {})
  /\ UNCHANGED <<wsConnection, socketDevice, nsock, serverSubscribed,
                 pingInterval, pingTimers, reconnectInterval, reconnectTimers,
                 wsSubscribers, telemetryCache, timeouts, revoked>>

\* onclose of socket s: the ping timer stops and the reconnect timer
\* starts with the deviceId the handler closed over.
SocketCloses(s) ==
  /\ NoneOpens
  /\ socketState[s] \in {"CONNECTING", "OPEN", "CLOSING"}
  /\ socketState' = [socketState EXCEPT ![s] = "CLOSED"]
  /\ stopPingInterval
  /\ startReconnectInterval(socketDevice[s])
  /\ serverSubscribed' = [serverSubscribed EXCEPT ![s] = {}]
  /\ event' = Step("close", s, socketDevice[s], Undefined, {})
  /\ UNCHANGED <<wsConnection, socketDevice, nsock, wsSubscribers,
                 telemetryCache, timeouts, revoked>>

\* The reconnect timer ticks.
ReconnectTick ==
  /\ NoneOpens
  /\ reconnectInterval # <<>>
  /\ IF wsConnection = 0 \/ socketState[wsConnection] \in {"CLOSED", "CLOSING"}
     THEN /\ initWebSocket(reconnectInterval[1])
          /\ UNCHANGED <<reconnectInterval, reconnectTimers>>
     ELSE IF socketState[wsConnection] = "OPEN"
     THEN /\ reconnectInterval' = <<>>
          /\ reconnectTimers' = reconnectTimers - 1
          /\ UNCHANGED <<wsConnection, socketState, socketDevice, nsock>>
     ELSE UNCHANGED <<reconnectInterval, reconnectTimers, wsConnection,
                      socketState, socketDevice, nsock>>
  /\ event' = Step("reconnectTick", wsConnection', reconnectInterval[1], Undefined, {})
  /\ UNCHANGED <<serverSubscribed, pingInterval, pingTimers, wsSubscribers,
                 telemetryCache, timeouts, revoked>>

\* The ping timer ticks: a ping goes out on an open connection.
PingTick ==
  /\ NoneOpens
  /\ pingInterval
  /\ event' = Step(IF wsConnection # 0 /\ socketState[wsConnection] = "OPEN"
                   THEN "ping" ELSE "pingSkipped",
                   wsConnection, Undefined, Undefined, {})
  /\ UNCHANGED <<wsConnection, socketState, socketDevice, nsock,
                 serverSubscribed, pingInterval, pingTimers, reconnectInterval,
                 reconnectTimers, wsSubscribers, telemetryCache, timeouts,
                 revoked>>

\* onmessage of socket s for a telemetry frame of deviceId: the parse is
\* deferred.
TelemetryArrives(s, deviceId) ==
  /\ NoneOpens
  /\ socketState[s] = "OPEN"
  /\ timeouts' = timeouts \cup {Timeout("message", deviceId, Undefined)}
  /\ event' = Step("frame", s, deviceId, Undefined, {})
  /\ UNCHANGED <<wsConnection, socketState, socketDevice, nsock,
                 serverSubscribed, pingInterval, pingTimers, reconnectInterval,
                 reconnectTimers, wsSubscribers, telemetryCache, revoked>>

\* getLatestTelemetryEntry(deviceId) stores what it fetched.
FetchLatest(deviceId) ==
  /\ NoneOpens
  /\ telemetryCache' = [telemetryCache EXCEPT !.latest = @ \cup {deviceId}]
  /\ event' = Step("fetch", 0, deviceId, Undefined, {})
  /\ UNCHANGED <<wsConnection, socketState, socketDevice, nsock,
                 serverSubscribed, pingInterval, pingTimers, reconnectInterval,
                 reconnectTimers, wsSubscribers, timeouts, revoked>>

\* The callbacks a pending timeout calls when it runs.
Called(t) ==
  CASE t.kind = "message" -> {}
    [] t.kind = "notify" ->
         IF t.device \in DOMAIN wsSubscribers THEN wsSubscribers[t.device] ELSE {}
    [] OTHER -> {t.callback}

\* A pending timeout runs. The deferred parse hands the frame to
\* handleTelemetryMessage, which fills the caches and defers the
\* notification.
TimeoutFires(t) ==
  /\ NoneOpens
  /\ t \in timeouts
  /\ IF t.kind = "message"
     THEN /\ telemetryCache' = [latest |-> telemetryCache.latest \cup {t.device},
                                realtime |-> telemetryCache.realtime \cup {t.device}]
          /\ timeouts' = (timeouts \ {t}) \cup {Timeout("notify", t.device, Undefined)}
     ELSE /\ timeouts' = timeouts \ {t}
          /\ UNCHANGED telemetryCache
  /\ event' = Step(t.kind, 0, t.device, t.callback, Called(t))
  /\ UNCHANGED <<wsConnection, socketState, socketDevice, nsock,
                 serverSubscribed, pingInterval, pingTimers, reconnectInterval,
                 reconnectTimers, wsSubscribers, revoked>>

NextTelemetryService ==
  \/ \E d \in DeviceIds, cb \in Callbacks : SubscribeTelemetry(d, cb)
  \/ \E d \in DeviceIds, cb \in Callbacks : Unsubscribe(d, cb)
  \/ SubscribeAlarms
  \/ \E s \in Sockets : SocketOpens(s)
  \/ \E s \in Sockets : SocketClosing(s)
  \/ \E s \in Sockets : SocketCloses(s)
  \/ ReconnectTick
  \/ PingTick
  \/ \E s \in Sockets, d \in DeviceIds : TelemetryArrives(s, d)
  \/ \E d \in DeviceIds : FetchLatest(d)
  \/ \E t \in timeouts : TimeoutFires(t)

SpecTelemetryService == Init /\ [][NextTelemetryService]_vars

\* ---------------------------------------------- client WebSocketService
\* connect() where this.socket is not open: a new socket replaces it, with
\* the handlers connect() installs.
NewSocket ==
  /\ nws < MaxServiceSockets
  /\ nws' = nws + 1
  /\ socket' = nws + 1
  /\ wsReadyState' = [wsReadyState EXCEPT ![nws + 1] = "CONNECTING"]
  /\ wsOnclose' = [wsOnclose EXCEPT ![nws + 1] = "reconnect"]

SocketIsOpen == socket # 0 /\ wsReadyState[socket] = "OPEN"

\* The application calls connect().
CallConnect ==
  /\ ncalls < MaxCalls
  /\ ncalls' = ncalls + 1
  /\ IF SocketIsOpen
     THEN UNCHANGED <<socket, wsReadyState, wsOnclose, nws>>
     ELSE NewSocket
  /\ did' = Did("connect", socket', "none", FALSE)
  /\ UNCHANGED <<isConnected, reconnectAttempts, reconnectTimeout, attempts>>
  /\ UNCHANGED <<server, telemetryService>>

\* The reconnect timer runs: it calls connect().
ReconnectTimerFires ==
  /\ reconnectTimeout
  /\ reconnectTimeout' = FALSE
  /\ IF SocketIsOpen
     THEN UNCHANGED <<socket, wsReadyState, wsOnclose, nws, attempts>>
     ELSE NewSocket /\ attempts' = attempts + 1
  /\ did' = Did("timer", socket', "none", FALSE)
  /\ UNCHANGED <<isConnected, reconnectAttempts, ncalls>>
  /\ UNCHANGED <<server, telemetryService>>

\* onopen of socket s.
OnOpen(s) ==
  /\ wsReadyState[s] = "CONNECTING"
  /\ wsReadyState' = [wsReadyState EXCEPT ![s] = "OPEN"]
  /\ isConnected' = TRUE
  /\ reconnectAttempts' = 0
  /\ attempts' = 0
  /\ did' = Did("open", s, "none", FALSE)
  /\ UNCHANGED <<socket, reconnectTimeout, wsOnclose, nws, ncalls>>
  /\ UNCHANGED <<server, telemetryService>>

\* _attemptReconnect(): nothing at the cap, else one more attempt is
\* counted and the timer is set anew.
attemptReconnect ==
  IF reconnectAttempts >= maxReconnectAttempts
  THEN UNCHANGED <<reconnectAttempts, reconnectTimeout>>
  ELSE /\ reconnectAttempts' = reconnectAttempts + 1
       /\ reconnectTimeout' = TRUE

\* The close event of socket s runs the onclose handler the socket has.
OnSocketClose(s) ==
  /\ wsReadyState[s] \in {"CONNECTING", "OPEN", "CLOSING"}
  /\ wsReadyState' = [wsReadyState EXCEPT ![s] = "CLOSED"]
  /\ isConnected' = FALSE
  /\ IF wsOnclose[s] = "reconnect"
     THEN attemptReconnect
     ELSE UNCHANGED <<reconnectAttempts, reconnectTimeout>>
  /\ did' = Did("close", s, wsOnclose[s],
                reconnectAttempts' # reconnectAttempts)
  /\ UNCHANGED <<socket, wsOnclose, nws, ncalls, attempts>>
  /\ UNCHANGED <<server, telemetryService>>

\* disconnect() while connected: the socket gets an onclose handler that
\* only resolves, and is closed.
Disconnect ==
  /\ socket # 0
  /\ isConnected
  /\ wsOnclose[socket] = "reconnect"
  /\ wsOnclose' = [wsOnclose EXCEPT ![socket] = "resolve"]
  /\ wsReadyState' = [wsReadyState EXCEPT ![socket] =
       IF @ \in {"CONNECTING", "OPEN"} THEN "CLOSING" ELSE @]
  /\ did' = Did("disconnect", socket, "none", FALSE)
  /\ UNCHANGED <<socket, isConnected, reconnectAttempts, reconnectTimeout,
                 nws, ncalls, attempts>>
  /\ UNCHANGED <<server, telemetryService>>

NextWebSocketService ==
  \/ CallConnect
  \/ ReconnectTimerFires
  \/ \E s \in ServiceSockets : OnOpen(s)
  \/ \E s \in ServiceSockets : OnSocketClose(s)
  \/ Disconnect

SpecWebSocketService == Init /\ [][NextWebSocketService]_vars

TypeOK ==
  /\ producers \subseteq Conns
  /\ consumers \subseteq Conns
  /\ DOMAIN deviceSubscriptions \subseteq DeviceIds
  /\ \A k \in DOMAIN deviceSubscriptions : deviceSubscriptions[k] \subseteq Conns
  /\ readyState \in [Conns -> ReadyStates]
  /\ nconn \in 0..MaxConns
  /\ nframes \in 0..MaxFrames
  /\ wsConnection \in 0..MaxSockets
  /\ socketState \in [Sockets -> SocketStates]
  /\ pingTimers \in 0..1
  /\ reconnectTimers \in 0..1
  /\ socket \in 0..MaxServiceSockets
  /\ wsReadyState \in [ServiceSockets -> SocketStates]
  /\ reconnectAttempts \in 0..maxReconnectAttempts

\* ------------------------------------------------------------- properties
\* The last handler was a telemetry broadcast that returned: a telemetry
\* frame routed to broadcastTelemetry, or a simulation tick.  A broadcast
\* changes neither the registry nor any readyState, so the state after it
\* shows the sets it worked on.
TelemetryRan ==
  /\ last.op \in {"message", "simulate"}
  /\ last.frame.parse = "object"
  /\ last.frame.type = "telemetry"

EventDevice == TargetDevice(last.frame)

SubscribersOf(d) ==
  IF HasOwn(deviceSubscriptions, d) THEN deviceSubscriptions[d] ELSE {}

IsOpen(c) == readyState[c] = "OPEN"

\* c was written the event of the broadcast that just ran
GotEvent(c, type) ==
  \E i \in DOMAIN sent[c] : sent[c][i].type = type /\ sent[c][i].seq = bseq

\* C1: for a telemetry broadcast for device D, every open member of D's
\* subscriber set is written the event, and no consumer that is only in
\* other devices' sets is written anything.
C1_DeviceRouting ==
  (TelemetryRan /\ Truthy(EventDevice)) =>
    /\ \A c \in SubscribersOf(EventDevice) :
         IsOpen(c) => GotEvent(c, "telemetry")
    /\ \A c \in consumers :
         (IsSubscribedToSpecificDevice(deviceSubscriptions, c)
            /\ c \notin SubscribersOf(EventDevice)) => sent[c] = <<>>

C1_Witness ==
  /\ TelemetryRan
  /\ \E c \in SubscribersOf(EventDevice) : IsOpen(c) /\ GotEvent(c, "telemetry")
  /\ \E c \in consumers :
       /\ IsOpen(c)
       /\ IsSubscribedToSpecificDevice(deviceSubscriptions, c)
       /\ c \notin SubscribersOf(EventDevice)

\* C2: every open consumer that is in no device's subscriber set is written
\* every telemetry broadcast.
C2_UnfilteredGetAll ==
  TelemetryRan =>
    \A c \in consumers :
      (IsOpen(c) /\ ~IsSubscribedToSpecificDevice(deviceSubscriptions, c))
        => GotEvent(c, "telemetry")

\* C3: one telemetry broadcast writes the event at most once to any
\* connection.
C3_AtMostOnce ==
  TelemetryRan => \A c \in Conns : Len(sent[c]) <= 1

C3_Witness ==
  /\ TelemetryRan
  /\ \E c \in consumers \cap SubscribersOf(EventDevice) :
       IsOpen(c) /\ Len(sent[c]) = 1
  /\ \E c \in consumers :
       /\ ~IsSubscribedToSpecificDevice(deviceSubscriptions, c)
       /\ Len(sent[c]) = 1

AlarmRan ==
  last.op = "message" /\ last.frame.parse = "object" /\ last.frame.type = "alarm"

\* C4: an alarm broadcast is written to every open consumer, subscribed to
\* a device or not.
C4_AlarmToAll ==
  AlarmRan =>
    \A c \in consumers : IsOpen(c) => (GotEvent(c, "alarm") /\ Len(sent[c]) = 1)

C4_Witness ==
  /\ AlarmRan
  /\ \E c \in consumers :
       /\ IsSubscribedToSpecificDevice(deviceSubscriptions, c)
       /\ GotEvent(c, "alarm")
  /\ \E c \in consumers :
       /\ ~IsSubscribedToSpecificDevice(deviceSubscriptions, c)
       /\ GotEvent(c, "alarm")

SweepRan == last.op = "sweep" /\ ~last.threw

Accepted(c) == readyState[c] # "NONE"

\* C5: when a sweep tick completes, every connection, producer or
\* consumer, idle for more than 120000 ms has been terminated and is in
\* neither role set and in no device's subscriber set.
C5_IdlePurged ==
  SweepRan =>
    \A c \in Conns :
      (Accepted(c) /\ Idle(c)) =>
        /\ ~IsOpen(c)
        /\ c \notin producers \cup consumers
        /\ ~IsSubscribedToSpecificDevice(deviceSubscriptions, c)

\* C6: handling an unparseable frame closes no connection, raises nothing
\* past the handler, writes nothing to anyone and leaves the role sets and
\* the subscription index as they were.
C6_MalformedIsInert ==
  [][(last'.op = "message" /\ last'.frame.parse = "error") =>
       /\ running'
       /\ readyState' = readyState
       /\ registry' = registry
       /\ sent' = NoSends
       /\ received' = received]_vars

C6_Witness ==
  /\ last.op = "message"
  /\ last.frame.parse = "error"
  /\ IsOpen(last.conn)
  /\ IsSubscribedToSpecificDevice(deviceSubscriptions, last.conn)

\* C7: after the close of connection C is processed, C is in neither role
\* set, no device's set contains C, and every device whose set held only C
\* has no entry any more.
C7_CloseRemoves ==
  [][last'.op = "close" =>
       LET c == last'.conn IN
       /\ c \notin producers' \cup consumers'
       /\ ~IsSubscribedToSpecificDevice(deviceSubscriptions', c)
       /\ \A k \in DOMAIN deviceSubscriptions :
            deviceSubscriptions[k] = {c} => k \notin DOMAIN deviceSubscriptions']_vars

C7_Witness ==
  /\ last.op = "close"
  /\ last.removed # {}
  /\ deviceSubscriptions # EmptyIndex

\* C8: between handlers, no device identifier of the subscription index
\* maps to an empty set.
C8_NoEmptySets ==
  \A k \in DOMAIN deviceSubscriptions : deviceSubscriptions[k] # {}

C8_Witness ==
  /\ SweepRan
  /\ last.removed # {}
  /\ running

BroadcastSeqs(c) ==
  SelectSeq([i \in DOMAIN received[c] |-> received[c][i].seq], LAMBDA n : n > 0)

\* C9: the broadcast events a connection receives arrive in the order of
\* the broadcaster invocations that produced them.
C9_BroadcastOrder ==
  \A c \in Conns :
    \A i, j \in DOMAIN BroadcastSeqs(c) :
      i < j => BroadcastSeqs(c)[i] < BroadcastSeqs(c)[j]

C9_Witness ==
  \E c \in Conns :
    /\ Len(BroadcastSeqs(c)) >= 2
    /\ \E i, j \in DOMAIN received[c] :
         received[c][i].type = "telemetry" /\ received[c][j].type = "alarm"

\* the event m carries frame f's deviceId, device and temperature unchanged
CarriesFrame(m, f) ==
  /\ m.type = "telemetry"
  /\ m.deviceId = f.deviceId
  /\ m.device = f.device
  /\ m.temperature = f.temperature

C10_Scenario(p, c1, c2) ==
  /\ last.op = "message"
  /\ last.frame.parse = "object"
  /\ last.frame.type = "telemetry"
  /\ last.conn = p
  /\ p \in producers
  /\ c1 \in consumers \cap SubscribersOf(EventDevice)
  /\ c2 \in consumers
  /\ ~IsSubscribedToSpecificDevice(deviceSubscriptions, c2)
  /\ IsOpen(c1)
  /\ IsOpen(c2)

\* C10: a producer's telemetry frame for device D, with consumer C1 in D's
\* set and consumer C2 in no set, both open: each is written exactly one
\* telemetry event, carrying the frame's deviceId, device and temperature.
C10_ExactlyOneEach ==
  \A p, c1, c2 \in Conns :
    C10_Scenario(p, c1, c2) =>
      \A c \in {c1, c2} :
        Len(sent[c]) = 1 /\ CarriesFrame(sent[c][1], last.frame)

C10_Witness ==
  \E p, c1, c2 \in Conns :
    /\ C10_Scenario(p, c1, c2)
    /\ last.frame.deviceId = Undefined
    /\ last.frame.device = "esp32"
    /\ Len(sent[c1]) = 1
    /\ Len(sent[c2]) = 1

SubscribeRan ==
  /\ last.op = "message"
  /\ last.frame.parse = "object"
  /\ last.frame.type = "subscribe"
  /\ Truthy(last.frame.deviceId)

\* C11: a subscribe frame naming device D makes the sender a member of D's
\* subscriber set and has exactly one subscription_confirmed carrying D
\* written to the sender; nothing is written to anyone else and no
\* telemetry is written to the sender by the subscription.
C11_SubscribeAcked ==
  SubscribeRan =>
    /\ last.conn \in SubscribersOf(last.frame.deviceId)
    /\ Len(sent[last.conn]) = 1
    /\ sent[last.conn][1].type = "subscription_confirmed"
    /\ sent[last.conn][1].deviceId = last.frame.deviceId
    /\ \A c \in Conns \ {last.conn} : sent[c] = <<>>

PingRan ==
  last.op = "message" /\ last.frame.parse = "object" /\ last.frame.type = "ping"

\* C12: a ping frame has exactly one pong written to the sender and
\* nothing to any other connection; the role sets and the subscription
\* index stay as they were and no broadcaster runs.
C12_PingPong ==
  [][(last'.op = "message" /\ last'.frame.parse = "object"
        /\ last'.frame.type = "ping") =>
       /\ Len(sent'[last'.conn]) = 1
       /\ sent'[last'.conn][1].type = "pong"
       /\ sent'[last'.conn][1].timestamp = now
       /\ \A c \in Conns \ {last'.conn} : sent'[c] = <<>>
       /\ registry' = registry
       /\ bseq' = bseq]_vars

C12_Witness ==
  /\ PingRan
  /\ Len(sent[last.conn]) = 1
  /\ \E c \in consumers \ {last.conn} : IsOpen(c)
  /\ deviceSubscriptions # EmptyIndex

Admitted == 1..nconn

ConnectionTags(c) ==
  {i \in DOMAIN received[c] : received[c][i].type = "connection"}

\* C13: every connection that was opened has been written exactly one
\* connection confirmation, and it is the first message on its channel.
C13_ConfirmationFirst ==
  \A c \in Admitted :
    /\ Cardinality(ConnectionTags(c)) = 1
    /\ received[c][1].type = "connection"

\* C14: the value a telemetry broadcast returns is the number of
\* connections the event was written to during that broadcast.
C14_CountIsDeliveries ==
  (TelemetryRan /\ ~last.threw) =>
    last.count = Cardinality({c \in Conns : sent[c] # <<>>})

C14_Witness ==
  /\ TelemetryRan
  /\ ~last.threw
  /\ last.count = 2
  /\ \E c \in SubscribersOf(EventDevice) : sent[c] # <<>>
  /\ \E c \in consumers :
       /\ ~IsSubscribedToSpecificDevice(deviceSubscriptions, c)
       /\ sent[c] # <<>>

BroadcastRan == TelemetryRan \/ AlarmRan

\* the recipients the broadcast that just ran looks at
Candidates ==
  IF AlarmRan THEN consumers
  ELSE SubscribersOf(EventDevice) \cup
       {c \in consumers : ~IsSubscribedToSpecificDevice(deviceSubscriptions, c)}

\* C15: a telemetry or alarm broadcast writes nothing to a recipient whose
\* channel is not open; the recipient is skipped without an error (the one
\* broadcast that raises does so on the device key, before it looks at any
\* recipient), is not counted, and the sender is told nothing about it.
C15_ClosedSkipped ==
  BroadcastRan =>
    /\ \A c \in Conns : ~IsOpen(c) => sent[c] = <<>>
    /\ last.threw => (TelemetryRan /\ EventDevice \in ProtoKeys)
    /\ ~last.threw =>
         /\ \A c \in Candidates : IsOpen(c) => GotEvent(c, last.frame.type)
         /\ \A c \in Conns : \A i \in DOMAIN sent[c] :
              sent[c][i].type = last.frame.type
         /\ TelemetryRan =>
              last.count = Cardinality({c \in Candidates : IsOpen(c)})

C15_Witness ==
  /\ TelemetryRan
  /\ ~last.threw
  /\ last.count = 1
  /\ \E c \in SubscribersOf(EventDevice) : ~IsOpen(c) /\ sent[c] = <<>>
  /\ \E c \in Candidates : IsOpen(c) /\ sent[c] # <<>>

SendFailed == last.failed # 0

\* C16: when the write to one recipient raises during a broadcast, the
\* failure stays with that recipient: every other open recipient is still
\* written the event, no error leaves the broadcast, and the server keeps
\* running.
C16_WriteFailureContained ==
  SendFailed =>
    /\ running
    /\ ~last.threw
    /\ \A c \in Candidates \ {last.failed} :
         IsOpen(c) => GotEvent(c, last.frame.type)

Registered(c) == c \in producers \cup consumers

\* C17: a broadcast event reaches a connection only in the step of its own
\* broadcast, and only if the connection is registered and open at that
\* moment; an event of an earlier broadcast is never delivered afterwards.
C17_NoReplay ==
  [][\A c \in Conns : \A i \in DOMAIN received'[c] :
       (i > Len(received[c]) /\ received'[c][i].seq > 0) =>
         /\ received'[c][i].seq = bseq + 1
         /\ bseq' = bseq + 1
         /\ readyState[c] = "OPEN"
         /\ Registered(c)]_vars

C17_Witness ==
  /\ TelemetryRan
  /\ bseq = 2
  /\ \E e, c \in consumers :
       /\ BroadcastSeqs(e) = <<1, 2>>
       /\ BroadcastSeqs(c) = <<2>>

\* C18: handling an inbound frame of whatever content leaves the sender's
\* lastActivity at the current time.
C18_FrameRefreshesActivity ==
  last.op = "message" => lastActivity[last.conn] = now

\* C19: every member of every device's subscriber set is a consumer.
C19_SubscribersAreConsumers ==
  \A k \in DOMAIN deviceSubscriptions : deviceSubscriptions[k] \subseteq consumers

ConnectRan == last.op = "connect" /\ ~last.threw

\* C20: an admitted connection is in the producer set iff it connected with
\* clientType producer and in the consumer set otherwise, also when it gave
\* no clientType; no connection is in both sets.
C20_OneRole ==
  /\ producers \cap consumers = {}
  /\ \A c \in Conns : Registered(c) =>
       /\ c \in producers <=> clientType[c] = "producer"
       /\ c \in consumers <=> clientType[c] # "producer"
  /\ ConnectRan =>
       /\ last.conn \in producers <=> last.param = "producer"
       /\ last.conn \in consumers <=> last.param # "producer"

C20_Witness ==
  /\ ConnectRan
  /\ last.param = Undefined
  /\ last.conn \in consumers
  /\ \E p \in producers : clientType[p] = "producer"

\* C21: a connection admitted with a deviceId parameter is, once admission
\* has completed, a member of that device's subscriber set.
C21_AdmittedWithDeviceSubscribed ==
  (ConnectRan /\ Truthy(last.deviceId)) =>
    last.conn \in SubscribersOf(last.deviceId)

\* the devices whose subscriber set holds c
DevicesOf(c) == {k \in DOMAIN deviceSubscriptions : c \in deviceSubscriptions[k]}

\* C22: after a subscribe frame for device D2 from a connection that is in
\* another device's subscriber set, the connection is in D2's set as well as
\* in the sets it was in.
C22_SubscribeAccumulates ==
  (SubscribeRan /\ DevicesOf(last.conn) \ {last.frame.deviceId} # {}) =>
    last.conn \in SubscribersOf(last.frame.deviceId)

\* C23: the close of a connection that is already out of the role sets (the
\* sweep removed it) changes neither the role sets nor the subscription
\* index, and raises nothing.
C23_AbsentRemovalIsNoOp ==
  [][(last'.op = "close" /\ ~Registered(last'.conn)) =>
       (registry' = registry /\ ~last'.threw)]_vars

KnownTypes == {"telemetry", "alarm", "ping", "subscribe"}

UnknownTypeRan ==
  /\ last.op = "message"
  /\ last.frame.parse = "object"
  /\ last.frame.type \notin KnownTypes

\* C24: a well-formed frame whose type is none of telemetry, alarm, ping
\* and subscribe is ignored: nothing is sent to anyone, role sets and
\* subscription index stay as they are, and the sender's channel stays open.
C24_UnknownTypeIgnored ==
  [][(/\ last'.op = "message"
      /\ last'.frame.parse = "object"
      /\ last'.frame.type \notin KnownTypes) =>
       /\ sent' = NoSends
       /\ received' = received
       /\ registry' = registry
       /\ readyState' = readyState
       /\ running'
       /\ ~last'.threw]_vars

C24_Witness ==
  /\ UnknownTypeRan
  /\ IsOpen(last.conn)
  /\ deviceSubscriptions # EmptyIndex
  /\ \E c \in consumers \ {last.conn} : IsOpen(c)

EmptySubscribeRan ==
  /\ last.op = "message"
  /\ last.frame.parse = "object"
  /\ last.frame.type = "subscribe"
  /\ ~Truthy(last.frame.deviceId)

\* C29: a subscribe frame without a deviceId is dropped: no acknowledgement
\* is sent, the subscription index stays as it is, and the sender stays open
\* and registered.
C29_SubscribeWithoutDeviceDropped ==
  [][(/\ last'.op = "message"
      /\ last'.frame.parse = "object"
      /\ last'.frame.type = "subscribe"
      /\ ~Truthy(last'.frame.deviceId)) =>
       /\ sent' = NoSends
       /\ received' = received
       /\ registry' = registry
       /\ readyState' = readyState
       /\ running']_vars

C29_Witness ==
  /\ EmptySubscribeRan
  /\ IsOpen(last.conn)
  /\ Registered(last.conn)
  /\ DevicesOf(last.conn) # {}

\* in some part of the registry: a role set or a device's subscriber set
InRegistry(c) == Registered(c) \/ DevicesOf(c) # {}

\* C25: a broadcast that runs after connections were closed or terminated
\* does not fail on their account, writes to no connection that has left
\* the registry or is no longer open, and writes the event to every open
\* recipient that remains.
C25_RemovalSafe ==
  BroadcastRan =>
    /\ \A c \in Conns : (~InRegistry(c) \/ ~IsOpen(c)) => sent[c] = <<>>
    /\ \A c \in Conns : readyState[c] = "CLOSED" => ~InRegistry(c)
    /\ last.threw => (TelemetryRan /\ EventDevice \in ProtoKeys)
    /\ ~last.threw =>
         \A c \in Candidates : IsOpen(c) => GotEvent(c, last.frame.type)

C25_Witness ==
  /\ BroadcastRan
  /\ ~last.threw
  /\ \E x \in Conns : readyState[x] = "CLOSED" /\ received[x] # <<>>
  /\ \E c \in Candidates : GotEvent(c, last.frame.type)

\* C26: a sweep tick sends one liveness probe to every registered
\* connection that is within the deadline and open, none to a connection
\* past the deadline, and leaves alone a connection that is within the
\* deadline but not open.
C26_ProbesTheLive ==
  [][last'.op = "sweep" =>
       /\ last'.probes = {c \in Conns : Registered(c) /\ ~Idle(c) /\ IsOpen(c)}
       /\ \A c \in Conns : (Registered(c) /\ ~Idle(c) /\ ~IsOpen(c)) =>
            /\ readyState'[c] = readyState[c]
            /\ c \in producers' \cup consumers']_vars

\* C27: a sweep tick terminates and removes a connection only when
\* now - lastActivity exceeds 120000 ms; a connection idle for 120000 ms or
\* less is, after the tick, in the state and in the sets it was in.
C27_StrictDeadline ==
  [][last'.op = "sweep" =>
       \A c \in Conns :
         /\ (InRegistry(c) /\ readyState'[c] # readyState[c]) =>
              now - lastActivity[c] > Deadline
         /\ (InRegistry(c) /\ now - lastActivity[c] <= Deadline) =>
              /\ readyState'[c] = readyState[c]
              /\ (c \in producers' <=> c \in producers)
              /\ (c \in consumers' <=> c \in consumers)
              /\ \A k \in DOMAIN deviceSubscriptions :
                   c \in deviceSubscriptions[k] =>
                     (k \in DOMAIN deviceSubscriptions'
                        /\ c \in deviceSubscriptions'[k])]_vars

\* the step is a pong or a frame that parses, from connection c
Answers(c) ==
  /\ last'.conn = c
  /\ \/ last'.op = "pong"
     \/ last'.op = "message" /\ last'.frame.parse # "error"

\* C28: a pong or a well-formed frame restarts the connection's idle time,
\* and a sweep tick does not terminate an open connection whose latest
\* such answer is no more than 120000 ms old, whatever it missed before.
C28_ActiveSurvives ==
  [][\A c \in Conns :
       /\ Answers(c) => lastActivity'[c] = now
       /\ (last'.op = "sweep" /\ Registered(c) /\ IsOpen(c) /\ ~Idle(c)) =>
            (readyState'[c] = "OPEN" /\ c \in producers' \cup consumers')]_vars

C31_SubscribersRegistered ==
  \A c \in Conns : DevicesOf(c) # {} => Registered(c)

\* terminated by the sweep, or closed
Gone(c) ==
  \/ readyState[c] = "CLOSED"
  \/ readyState[c] = "CLOSING" /\ ~Registered(c)

\* C32: a connection that the sweep has terminated or whose close has been
\* processed is in no role set and in no device's subscriber set, and is
\* written nothing.
C32_TerminationFinal ==
  \A c \in Conns : Gone(c) => (~InRegistry(c) /\ sent[c] = <<>>)

UntargetedRan == TelemetryRan /\ ~Truthy(EventDevice)

\* C35: a telemetry event that names no device is written once to each open
\* consumer that is in no device's subscriber set, and to no one else.
C35_UntargetedToUnfiltered ==
  UntargetedRan =>
    /\ ~last.threw
    /\ \A c \in Conns :
         IF c \in consumers /\ IsOpen(c) /\ DevicesOf(c) = {}
         THEN Len(sent[c]) = 1 /\ GotEvent(c, "telemetry")
         ELSE sent[c] = <<>>

C35_Witness ==
  /\ UntargetedRan
  /\ \E c \in consumers : IsOpen(c) /\ DevicesOf(c) = {} /\ sent[c] # <<>>
  /\ \E c \in consumers : IsOpen(c) /\ DevicesOf(c) # {} /\ sent[c] = <<>>

\* C36: the target of a telemetry event is its deviceId when it has one and
\* its device otherwise: the open subscribers of the device it names through
\* either field alone are written it, and when it names two devices the
\* subscribers of device alone are written nothing.
C36_TargetResolution ==
  (TelemetryRan /\ ~last.threw) =>
    LET f == last.frame IN
    /\ EventDevice = IF f.deviceId # Undefined THEN f.deviceId ELSE f.device
    /\ \A c \in SubscribersOf(EventDevice) : IsOpen(c) => GotEvent(c, "telemetry")
    /\ (Truthy(f.deviceId) /\ Truthy(f.device)) =>
         \A c \in SubscribersOf(f.device) \ SubscribersOf(f.deviceId) :
           sent[c] = <<>>

C36_Witness ==
  /\ TelemetryRan
  /\ ~Truthy(last.frame.deviceId)
  /\ Truthy(last.frame.device)
  /\ \E c \in SubscribersOf(last.frame.device) : GotEvent(c, "telemetry")

\* C33: what one connection's frames cause reaches every recipient, the
\* sender included, in the order in which those frames arrived.
C33_ArrivalOrder ==
  \A r \in Conns : \A i, j \in DOMAIN order[r] :
    (i < j /\ order[r][i].from = order[r][j].from) =>
      order[r][i].n < order[r][j].n

C33_Witness ==
  \E r \in Conns : \E i, j \in DOMAIN order[r] :
    /\ i < j
    /\ order[r][i].from = order[r][j].from
    /\ order[r][i].from # r

\* ------------------------------------------- client telemetry service
\* C38: at most one socket of the telemetry service is open or connecting,
\* at most one ping timer and one reconnect timer are active, and no
\* reconnect timer is active while the current connection is open.
C38_OneSocketOneTimer ==
  /\ Cardinality({s \in Sockets : socketState[s] \in {"OPEN", "CONNECTING"}}) <= 1
  /\ pingTimers <= 1
  /\ reconnectTimers <= 1
  /\ (wsConnection # 0 /\ socketState[wsConnection] = "OPEN") => reconnectTimers = 0

\* C39: once the telemetry service has lost a connection and a later one
\* is open, the server has that connection subscribed to every device the
\* service holds telemetry callbacks for.
C39_ResubscribedAfterReconnect ==
  (/\ wsConnection # 0
   /\ socketState[wsConnection] = "OPEN"
   /\ \E s \in opened : s < wsConnection)
    => \A d \in DOMAIN wsSubscribers : d \in serverSubscribed[wsConnection]

\* C34: the unsubscribe closure of (deviceId, cb) leaves cb out of that
\* device's set and leaves no empty set in the map, and no later step calls
\* cb for that device until it is subscribed again.
C34_RevokedNeverCalled ==
  /\ \A k \in DOMAIN wsSubscribers : wsSubscribers[k] # {}
  /\ event.op = "unsubscribe" =>
       \/ event.device \notin DOMAIN wsSubscribers
       \/ event.callback \notin wsSubscribers[event.device]
  /\ \A cb \in event.called : <<event.device, cb>> \notin revoked

\* ---------------------------------------------- client WebSocketService
\* C37: the reconnect timer creates at most maxReconnectAttempts sockets
\* in a row with no open in between, an open leaves the attempt counter at
\* 0, and the close of a socket disconnect() closed schedules no reconnect.
C37_BoundedReconnect ==
  /\ attempts <= maxReconnectAttempts
  /\ did.op = "open" => reconnectAttempts = 0
  /\ (did.op = "close" /\ did.handler = "resolve") => ~did.scheduled

====
